---- MODULE Spec2Model ----
(***************************************************************************)
(* Model of lan8651_kernelfs.py: command-line dispatch, interface          *)
(* discovery, the three-method register read chain and the register        *)
(* report.  Text is modelled as sequences of one-character strings so that *)
(* formatting, splitting and integer parsing are computed, not assumed.    *)
(***************************************************************************)
EXTENDS Integers, Sequences, FiniteSets, TLC

\* ------------------------------------------------------------------------
\* Bounds of the model
\* ------------------------------------------------------------------------
\* largest number of command-line arguments after the program name
MaxArgs == 2
\* largest number of lines in an ethtool register dump
MaxLines == 2

\* ------------------------------------------------------------------------
\* Text primitives (Python str operations used by the program)
\* ------------------------------------------------------------------------
None == <<>>
Some(v) == <<v>>

Whitespace == {" ", "\t", "\n"}

UpperToLower ==
  [c \in {"A","B","C","D","E","F","O","X","Z"} |->
     CASE c = "A" -> "a" [] c = "B" -> "b" [] c = "C" -> "c"
       [] c = "D" -> "d" [] c = "E" -> "e" [] c = "F" -> "f"
       [] c = "O" -> "o" [] c = "X" -> "x" [] c = "Z" -> "z"]

\* str.lower()
Lower(s) == [i \in 1..Len(s) |-> IF s[i] \in DOMAIN UpperToLower THEN UpperToLower[s[i]] ELSE s[i]]

\* `sub in s`
Contains(sub, s) ==
  \E i \in 1..(Len(s) - Len(sub) + 1) : SubSeq(s, i, i + Len(sub) - 1) = sub

RECURSIVE LStrip(_)
LStrip(s) == IF s # <<>> /\ Head(s) \in Whitespace THEN LStrip(Tail(s)) ELSE s

RECURSIVE RStrip(_)
RStrip(s) == IF s # <<>> /\ s[Len(s)] \in Whitespace THEN RStrip(SubSeq(s, 1, Len(s) - 1)) ELSE s

\* str.strip()
Strip(s) == RStrip(LStrip(s))

\* str.split(sep): every separator cuts, empty pieces are kept
RECURSIVE SplitOn(_, _)
SplitOn(s, sep) ==
  IF \A i \in 1..Len(s) : s[i] # sep THEN <<s>>
  ELSE LET k == CHOOSE i \in 1..Len(s) : s[i] = sep /\ \A j \in 1..(i-1) : s[j] # sep
       IN <<SubSeq(s, 1, k - 1)>> \o SplitOn(SubSeq(s, k + 1, Len(s)), sep)

\* str.split(): runs of whitespace cut, empty pieces are dropped
RECURSIVE SplitWs(_)
SplitWs(s) ==
  LET t == LStrip(s) IN
  IF t = <<>> THEN <<>>
  ELSE IF \A i \in 1..Len(t) : t[i] \notin Whitespace THEN <<t>>
  ELSE LET k == CHOOSE i \in 1..Len(t) : t[i] \in Whitespace /\ \A j \in 1..(i-1) : t[j] \notin Whitespace
       IN <<SubSeq(t, 1, k - 1)>> \o SplitWs(SubSeq(t, k + 1, Len(t)))

HexDigits == <<"0","1","2","3","4","5","6","7","8","9","a","b","c","d","e","f">>

\* value of a digit character, 99 when it is no digit at all
DigitVal(c) ==
  LET l == Lower(<<c>>)[1] IN
  IF \E d \in 1..16 : HexDigits[d] = l THEN (CHOOSE d \in 1..16 : HexDigits[d] = l) - 1 ELSE 99

\* ------------------------------------------------------------------------
\* Python integers.  They are unbounded; an integer is kept as a sign and a
\* magnitude hi * 2^16 + lo with 0 <= lo < 2^16.
\* ------------------------------------------------------------------------
Limb == 65536

PyInt(neg, hi, lo) == [neg |-> neg, hi |-> hi, lo |-> lo]

\* the Python integer n, for a small natural number n
IntOf(n) == PyInt(FALSE, n \div Limb, n % Limb)

IsZero(n) == n.hi = 0 /\ n.lo = 0

\* -n
Negate(n) == IF IsZero(n) THEN n ELSE PyInt(~n.neg, n.hi, n.lo)

\* n * base + d, for n >= 0
MulAdd(n, base, d) ==
  LET t == n.lo * base + d IN PyInt(FALSE, n.hi * base + t \div Limb, t % Limb)

\* n + 1, for n >= 0
Succ(n) == IF n.lo = Limb - 1 THEN PyInt(FALSE, n.hi + 1, 0) ELSE PyInt(FALSE, n.hi, n.lo + 1)

RECURSIVE Pow2(_)
Pow2(k) == IF k = 0 THEN 1 ELSE 2 * Pow2(k - 1)

\* n >> k for n >= 0 and 0 <= k <= 16
ShrMag(n, k) ==
  PyInt(FALSE, n.hi \div Pow2(k), (n.hi % Pow2(k)) * Pow2(16 - k) + n.lo \div Pow2(k))

\* value >> k for 0 <= k <= 16 (rounds towards minus infinity, as Python does)
Shr(value, k) ==
  IF ~value.neg THEN ShrMag(value, k)
  ELSE LET m == PyInt(FALSE, value.hi, value.lo)
           q == ShrMag(m, k)
           exact == (m.lo % Pow2(k) = 0) /\ (k < 16 \/ m.lo = 0)
       IN Negate(IF exact THEN q ELSE Succ(q))

\* value & (2^n - 1) for 1 <= n <= 16 (two's complement of a negative value)
Mask(value, n) ==
  IF ~value.neg THEN value.lo % Pow2(n) ELSE ((Limb - value.lo) % Limb) % Pow2(n)

\* 0 <= value < 2^32
IsU32(value) == ~value.neg /\ value.hi < Limb

RECURSIVE HexStr(_)
HexStr(n) == IF n < 16 THEN <<HexDigits[n + 1]>> ELSE HexStr(n \div 16) \o <<HexDigits[(n % 16) + 1]>>

RECURSIVE ZeroPad(_, _)
ZeroPad(s, width) == IF Len(s) >= width THEN s ELSE ZeroPad(<<"0">> \o s, width)

\* hexadecimal digits of the magnitude of n
MagHex(n) == IF n.hi = 0 THEN HexStr(n.lo) ELSE HexStr(n.hi) \o ZeroPad(HexStr(n.lo), 4)

\* format(n, "08x")
Format08x(n) == IF ~n.neg THEN ZeroPad(MagHex(n), 8) ELSE <<"-">> \o ZeroPad(MagHex(n), 7)

\* f"0x{address:08x}"
FmtAddr(address) == <<"0", "x">> \o Format08x(address)

RECURSIVE DropUnderscores(_)
DropUnderscores(s) ==
  IF s = <<>> THEN <<>>
  ELSE IF Head(s) = "_" THEN DropUnderscores(Tail(s)) ELSE <<Head(s)>> \o DropUnderscores(Tail(s))

RECURSIVE DigitsValue(_, _, _)
DigitsValue(s, base, acc) ==
  IF s = <<>> THEN acc ELSE DigitsValue(Tail(s), base, MulAdd(acc, base, DigitVal(Head(s))))

\* digits of an integer literal: only digits of the base and single
\* underscores between digits (one may follow a base prefix)
DigitsOk(s, base, prefixed) ==
  /\ DropUnderscores(s) # <<>>
  /\ \A i \in 1..Len(s) : s[i] = "_" \/ DigitVal(s[i]) < base
  /\ s[Len(s)] # "_"
  /\ (s[1] = "_" => prefixed)
  /\ \A i \in 1..(Len(s) - 1) : ~(s[i] = "_" /\ s[i+1] = "_")

\* unsigned body of int(text, 0)
ParseUnsigned(s) ==
  IF Len(s) >= 2 /\ s[1] = "0" /\ Lower(<<s[2]>>)[1] \in {"x", "o", "b"}
  THEN LET base == CASE Lower(<<s[2]>>)[1] = "x" -> 16
                     [] Lower(<<s[2]>>)[1] = "o" -> 8
                     [] Lower(<<s[2]>>)[1] = "b" -> 2
           body == SubSeq(s, 3, Len(s))
       IN IF body # <<>> /\ DigitsOk(body, base, TRUE)
          THEN Some(DigitsValue(DropUnderscores(body), base, IntOf(0))) ELSE None
  ELSE IF s # <<>> /\ DigitsOk(s, 10, FALSE)
          /\ (s[1] = "0" => \A i \in 1..Len(s) : s[i] \in {"0", "_"})
       THEN Some(DigitsValue(DropUnderscores(s), 10, IntOf(0))) ELSE None

\* int(text, 0): None stands for ValueError
ParseInt(text) ==
  LET s == Strip(text) IN
  IF s = <<>> THEN None
  ELSE IF Head(s) \in {"+", "-"}
       THEN LET u == ParseUnsigned(Tail(s)) IN
            IF u = None THEN None ELSE Some(IF Head(s) = "-" THEN Negate(u[1]) ELSE u[1])
       ELSE ParseUnsigned(s)

RECURSIVE DecStr(_)
DecStr(n) == IF n < 10 THEN <<HexDigits[n + 1]>> ELSE DecStr(n \div 10) \o <<HexDigits[(n % 10) + 1]>>

\* "\n".join(lines)
RECURSIVE JoinLines(_)
JoinLines(lines) ==
  IF lines = <<>> THEN <<>>
  ELSE IF Len(lines) = 1 THEN lines[1]
  ELSE lines[1] \o <<"\n">> \o JoinLines(Tail(lines))

\* all sequences over S of length at most n
SeqUpTo(S, n) == UNION {[1..k -> S] : k \in 0..n}

\* ------------------------------------------------------------------------
\* Inputs: command line, sysfs/debugfs contents, kernel and ethtool replies
\* ------------------------------------------------------------------------
sProg == <<"p">>
sList == <<"l","i","s","t">>
sRead == <<"r","e","a","d">>
sFoo == <<"f","o","o">>
sZz == <<"z","z">>
sLan865x == <<"l","a","n","8","6","5","x">>
\* "4294967296", the decimal text of 2^32
sTwoTo32 == <<"4","2","9","4","9","6","7","2","9","6">>

ID_REV == 65536
STATUS0 == 65537

\* sys.argv[1:] texts
ArgTexts ==
  { sList, sRead, sFoo, sZz,
    <<"0","x">> \o HexStr(ID_REV), DecStr(ID_REV),
    <<"0","x">> \o HexStr(STATUS0) }

\* sys.argv
Argvs == { <<sProg>> \o a : a \in SeqUpTo(ArgTexts, MaxArgs) }

\* /sys/class/net/*/device/driver entries: interface name and what
\* os.readlink gives for it (<<>> stands for OSError)
NetDeviceLists ==
  { <<>>,
    << [iface |-> "eth0", link |-> <<"d","/","e","1","0","0","0">>] >>,
    << [iface |-> "eth0", link |-> <<"d","/">> \o sLan865x] >>,
    << [iface |-> "eth0", link |-> <<>>], [iface |-> "eth1", link |-> <<"d","/">> \o sLan865x] >>,
    << [iface |-> "eth0", link |-> <<"d","/">> \o sLan865x], [iface |-> "eth1", link |-> <<"d","/">> \o sLan865x] >> }

\* debug_paths, in the order the program probes them
debug_paths == << "/sys/kernel/debug/tc6", "/sys/kernel/debug/lan865x", "/sys/kernel/debug/spi" >>

\* register values the kernel interfaces answer with
SampleValues ==
  { IntOf(0), IntOf(33), IntOf(63), IntOf(64), IntOf(65535),
    PyInt(FALSE, 161, 3),         \* 0x00A10003
    PyInt(FALSE, 4660, 43981),    \* 0x1234ABCD
    PyInt(FALSE, 32768, 64),      \* 0x80000040
    PyInt(FALSE, 65535, 0),       \* 0xFFFF0000
    PyInt(FALSE, 65535, 65535) }  \* 0xFFFFFFFF

\* texts that are not 32-bit register values
OddTexts ==
  { sZz, <<"-","1">>, sTwoTo32,
    <<"0","b","1","0","0","0","0","1">>, <<" ","0","x","2","1","\n">> }

\* what reading <debugfs>/registers gives after `written` was written
DebugfsResponses(written) ==
  {written} \cup { FmtAddr(v) : v \in SampleValues } \cup OddTexts

\* what reading the spi*/registers attribute gives
SpiResponses ==
  { <<"0","x","2","1">>,
    <<"v","a","l","=">> \o FmtAddr(PyInt(FALSE, 161, 3)),
    <<"a","="," ","0","x","2","1"," ","\n">>,
    <<"x","=">> \o sZz,
    <<"a","=","1","=","2">>,
    <<"r","=">> \o sTwoTo32 }

\* lines of an `ethtool -d` dump
EthLines ==
  { FmtAddr(IntOf(ID_REV)) \o <<" "," ">> \o FmtAddr(PyInt(FALSE, 4660, 43981)),
    <<"0","X","0","0","0","1","0","0","0","0"," ">> \o FmtAddr(PyInt(FALSE, 161, 3)),
    FmtAddr(IntOf(ID_REV)),
    <<"r","e","g"," ">> \o FmtAddr(IntOf(STATUS0)) \o <<":"," ","0","x","2","1">>,
    FmtAddr(IntOf(STATUS0)) \o <<" ">> \o sZz,
    FmtAddr(IntOf(STATUS0)) \o <<" ">> \o FmtAddr(IntOf(ID_REV)) \o <<" ","7">> }

\* result.stdout of a finished ethtool
EthDumps == { JoinLines(ls) : ls \in SeqUpTo(EthLines, MaxLines) }

\* ------------------------------------------------------------------------
\* Register tables
\* ------------------------------------------------------------------------
\* reg_names of show_register_info
reg_names ==
  [a \in {65536, 65537, 65538, 65539, 65540, 65541, 65542, 65543, 65568, 65569} |->
     CASE a = 65536 -> "ID_REV"  [] a = 65537 -> "STATUS0" [] a = 65538 -> "STATUS1"
       [] a = 65539 -> "CONFIG0" [] a = 65540 -> "CONFIG1" [] a = 65541 -> "CONFIG2"
       [] a = 65542 -> "CONFIG3" [] a = 65543 -> "CONFIG4" [] a = 65568 -> "FIFO_SIZE"
       [] a = 65569 -> "CHUNK_SIZE"]

\* registers of the list branch of main
registers ==
  << <<65536, "ID_REV", "Chip and Revision ID">>,
     <<65537, "STATUS0", "Status Register 0">>,
     <<65538, "STATUS1", "Status Register 1">>,
     <<65539, "CONFIG0", "Configuration Register 0">>,
     <<65540, "CONFIG1", "Configuration Register 1">>,
     <<65568, "FIFO_SIZE", "FIFO Size Configuration">>,
     <<65569, "CHUNK_SIZE", "Chunk Size Configuration">> >>

\* the line printed for one entry of registers
ListLine(entry) == [addr |-> FmtAddr(IntOf(entry[1])), name |-> entry[2], desc |-> entry[3]]

RECURSIVE BinStr(_)
BinStr(n) == IF n < 2 THEN <<HexDigits[n + 1]>> ELSE BinStr(n \div 2) \o <<HexDigits[(n % 2) + 1]>>

\* binary digits of the magnitude of n
MagBin(n) == IF n.hi = 0 THEN BinStr(n.lo) ELSE BinStr(n.hi) \o ZeroPad(BinStr(n.lo), 16)

\* format(value, "032b")
Format032b(value) ==
  IF ~value.neg THEN ZeroPad(MagBin(value), 32) ELSE <<"-">> \o ZeroPad(MagBin(value), 31)

\* ------------------------------------------------------------------------
\* Program state
\* ------------------------------------------------------------------------
VARIABLES
  argv,          \* sys.argv
  pc,            \* position of the program
  exit_code,     \* None while running, then the exit status of the process
  out,           \* kinds of the lines printed so far
  sysfs_path,    \* LAN8651Debugfs.sysfs_path, as path components, or None
  debugfs_path,  \* LAN8651Debugfs.debugfs_path or None
  address,       \* the parsed address of `read`, or None
  calls,         \* read methods invoked so far by read_register
  results,       \* what each invoked method yielded
  value,         \* what read_register returned
  debugfs_resp,  \* text read from <debugfs>/registers, or None
  spi_resp,      \* text read from the spi*/registers attribute, or None
  eth_iface,     \* interface handed to ethtool, or None
  eth_rc,        \* return code of ethtool, or None
  eth_stdout,    \* captured output of ethtool
  listing,       \* lines of the register listing printed by `list`
  report         \* the register report printed by show_register_info, or None

vars == <<argv, pc, exit_code, out, sysfs_path, debugfs_path, address, calls, results,
          value, debugfs_resp, spi_resp, eth_iface, eth_rc, eth_stdout, listing, report>>

envVars == <<debugfs_resp, spi_resp, eth_iface, eth_rc, eth_stdout>>
readVars == <<calls, results, value>>

Init ==
  /\ argv \in Argvs
  /\ pc = "main"
  /\ exit_code = None
  /\ out = <<>>
  /\ sysfs_path = None
  /\ debugfs_path = None
  /\ address = None
  /\ calls = <<>>
  /\ results = <<>>
  /\ value = None
  /\ debugfs_resp = None
  /\ spi_resp = None
  /\ eth_iface = None
  /\ eth_rc = None
  /\ eth_stdout = <<>>
  /\ listing = <<>>
  /\ report = None

\* ------------------------------------------------------------------------
\* main: argument check and construction of LAN8651Debugfs
\* ------------------------------------------------------------------------
\* len(sys.argv) < 2: usage and return
MainUsage ==
  /\ pc = "main"
  /\ Len(argv) < 2
  /\ out' = Append(out, "usage")
  /\ pc' = "done"
  /\ exit_code' = Some(0)
  /\ UNCHANGED <<argv, sysfs_path, debugfs_path, address, listing, report>>
  /\ UNCHANGED envVars /\ UNCHANGED readVars

\* first lan865x interface of net_devices; readlink failures are skipped
RECURSIVE FirstLan865x(_)
FirstLan865x(devs) ==
  IF devs = <<>> THEN None
  ELSE IF Head(devs).link # <<>> /\ Contains(sLan865x, Head(devs).link)
       THEN Some(<<"", "sys", "class", "net", Head(devs).iface, "device">>)
       ELSE FirstLan865x(Tail(devs))

\* first existing entry of debug_paths
FirstDebugPath(rootExists, existing) ==
  IF rootExists /\ \E i \in 1..Len(debug_paths) : debug_paths[i] \in existing
  THEN Some(debug_paths[CHOOSE i \in 1..Len(debug_paths) :
                          /\ debug_paths[i] \in existing
                          /\ \A j \in 1..(i-1) : debug_paths[j] \notin existing])
  ELSE None

\* LAN8651Debugfs(): __init__ and find_interfaces
FindInterfaces ==
  /\ pc = "main"
  /\ Len(argv) >= 2
  /\ \E devs \in NetDeviceLists, rootExists \in BOOLEAN,
        existing \in SUBSET {debug_paths[i] : i \in 1..Len(debug_paths)} :
       LET sp == FirstLan865x(devs)
           dp == FirstDebugPath(rootExists, existing)
       IN /\ sysfs_path' = sp
          /\ debugfs_path' = dp
          /\ out' = out \o (IF sp # None THEN <<"found_interface">> ELSE <<>>)
                        \o (IF dp # None THEN <<"found_debug">> ELSE <<>>)
  /\ pc' = "dispatch"
  /\ UNCHANGED <<argv, exit_code, address, listing, report>>
  /\ UNCHANGED envVars /\ UNCHANGED readVars

\* sys.argv[1] == "list"
MainList ==
  /\ pc = "dispatch"
  /\ argv[2] = sList
  /\ out' = Append(out, "list_header")
  /\ listing' = [i \in 1..Len(registers) |-> ListLine(registers[i])]
  /\ pc' = "done"
  /\ exit_code' = Some(0)
  /\ UNCHANGED <<argv, sysfs_path, debugfs_path, address, report>>
  /\ UNCHANGED envVars /\ UNCHANGED readVars

\* sys.argv[1] == "read" with len(sys.argv) != 3
MainReadUsage ==
  /\ pc = "dispatch"
  /\ argv[2] = sRead
  /\ Len(argv) # 3
  /\ out' = Append(out, "read_usage")
  /\ pc' = "done"
  /\ exit_code' = Some(0)
  /\ UNCHANGED <<argv, sysfs_path, debugfs_path, address, listing, report>>
  /\ UNCHANGED envVars /\ UNCHANGED readVars

\* sys.argv[1] == "read": address = int(sys.argv[2], 0), then read_register
\* prints its first line; a ValueError of int() is not handled anywhere
MainReadAddress ==
  /\ pc = "dispatch"
  /\ argv[2] = sRead
  /\ Len(argv) = 3
  /\ LET a == ParseInt(argv[3]) IN
       IF a = None
       THEN /\ out' = Append(out, "traceback")
            /\ pc' = "done"
            /\ exit_code' = Some(1)
            /\ address' = None
       ELSE /\ out' = Append(out, "attempting")
            /\ pc' = "read_debugfs"
            /\ exit_code' = exit_code
            /\ address' = a
  /\ UNCHANGED <<argv, sysfs_path, debugfs_path, listing, report>>
  /\ UNCHANGED envVars /\ UNCHANGED readVars

\* sys.argv[1] is neither "list" nor "read": main falls off its end
MainOther ==
  /\ pc = "dispatch"
  /\ argv[2] # sList
  /\ argv[2] # sRead
  /\ pc' = "done"
  /\ exit_code' = Some(0)
  /\ UNCHANGED <<argv, out, sysfs_path, debugfs_path, address, listing, report>>
  /\ UNCHANGED envVars /\ UNCHANGED readVars

\* ------------------------------------------------------------------------
\* The three read methods
\* ------------------------------------------------------------------------
\* what a read method comes to: a value, nothing, or a raised exception
NoValue == [value |-> None, exc |-> ""]
Raised(kind) == [value |-> None, exc |-> kind]
Parsed(text) ==
  IF ParseInt(text) = None THEN Raised("ValueError") ELSE [value |-> ParseInt(text), exc |-> ""]

\* faulty variant: `except OSError` in place of `except Exception`
OnlyOSErrorCaught(exc) == exc = "OSError"
\* `except Exception` of the three read methods
ExceptionCaught(exc) == exc \in {"OSError", "ValueError", "IndexError"}

\* read_via_debugfs once the text has been read: int(result, 0) of the stripped text
DebugfsParse(text) == Parsed(Strip(text))

\* faulty variant: the "=" test is missing, so split("=")[1] may raise IndexError
SpiParseUnchecked(text) ==
  LET result == Strip(text) IN
  IF Len(SplitOn(result, "=")) < 2 THEN Raised("IndexError")
  ELSE Parsed(Strip(SplitOn(result, "=")[2]))
\* read_via_spi_debug once the text has been read
SpiParse(text) ==
  LET result == Strip(text) IN
  IF Contains(<<"=">>, result) THEN Parsed(Strip(SplitOn(result, "=")[2])) ELSE NoValue

\* faulty variant: takes the matching token itself, not its successor
ScanPartsSame(parts, i, fmt) ==
  IF \E k \in i..Len(parts) : Contains(fmt, Lower(parts[k]))
  THEN Some(parts[CHOOSE k \in i..Len(parts) :
                    /\ Contains(fmt, Lower(parts[k]))
                    /\ \A j \in i..(k-1) : ~Contains(fmt, Lower(parts[j]))])
  ELSE None
\* inner loop of read_via_ethtool: the token after the first token that
\* contains fmt and has a successor
RECURSIVE ScanParts(_, _, _)
ScanParts(parts, i, fmt) ==
  IF i > Len(parts) THEN None
  ELSE IF Contains(fmt, Lower(parts[i])) /\ i + 1 <= Len(parts) THEN Some(parts[i + 1])
  ELSE ScanParts(parts, i + 1, fmt)

\* outer loop of read_via_ethtool over the lines of the dump
RECURSIVE ScanLines(_, _)
ScanLines(lines, fmt) ==
  IF lines = <<>> THEN None
  ELSE LET hit == IF Contains(fmt, Lower(Head(lines)))
                  THEN ScanParts(SplitWs(Head(lines)), 1, fmt) ELSE None
       IN IF hit # None THEN hit ELSE ScanLines(Tail(lines), fmt)

\* read_via_ethtool once ethtool has finished with returncode rc
EthtoolParse(rc, stdout, addr) ==
  IF rc = 0
  THEN LET hit == ScanLines(SplitOn(stdout, "\n"), FmtAddr(addr)) IN
       IF hit = None THEN NoValue ELSE Parsed(hit[1])
  ELSE NoValue

\* faulty variant: no early return after a debugfs value
ReadRegisterNextNoReturn(method, v) ==
  CASE method = "debugfs" -> "read_spi"
    [] method = "spi" -> IF v # None THEN "returned" ELSE "read_ethtool"
    [] method = "ethtool" -> "returned"
\* read_register: where it goes after a method has yielded v
ReadRegisterNext(method, v) ==
  CASE method = "debugfs" -> IF v # None THEN "returned" ELSE "read_spi"
    [] method = "spi" -> IF v # None THEN "returned" ELSE "read_ethtool"
    [] method = "ethtool" -> "returned"

\* a read method comes back to read_register with outcome res
Yield(method, res, errmsg) ==
  /\ calls' = Append(calls, method)
  /\ IF res.exc # "" /\ ~ExceptionCaught(res.exc)
     THEN /\ results' = Append(results, None)
          /\ value' = None
          /\ out' = Append(out, "traceback")
          /\ pc' = "done"
          /\ exit_code' = Some(1)
     ELSE LET v == IF res.exc # "" THEN None ELSE res.value
              logged == IF res.exc # "" THEN Append(out, errmsg) ELSE out
              nxt == ReadRegisterNext(method, v)
          IN /\ results' = Append(results, v)
             /\ pc' = nxt
             /\ exit_code' = exit_code
             /\ value' = IF nxt = "returned" THEN v ELSE value
             /\ out' = IF nxt # "returned" THEN logged
                       ELSE IF v # None THEN Append(logged, "read_via_" \o method)
                       ELSE Append(logged, "all_failed")

ReadViaDebugfs ==
  /\ pc = "read_debugfs"
  /\ \E fileExists \in BOOLEAN, io \in {"ok", "OSError"},
        resp \in DebugfsResponses(FmtAddr(address[1])) :
       LET reached == debugfs_path # None /\ fileExists
           res == IF ~reached THEN NoValue
                  ELSE IF io # "ok" THEN Raised(io)
                  ELSE DebugfsParse(resp)
       IN /\ debugfs_resp' = IF reached /\ io = "ok" THEN Some(resp) ELSE None
          /\ Yield("debugfs", res, "debugfs_error")
  /\ UNCHANGED <<argv, sysfs_path, debugfs_path, address, listing, report,
                 spi_resp, eth_iface, eth_rc, eth_stdout>>

ReadViaSpiDebug ==
  /\ pc = "read_spi"
  /\ \E attrExists \in BOOLEAN, io \in {"ok", "OSError"}, resp \in SpiResponses :
       LET reached == sysfs_path # None /\ attrExists
           res == IF ~reached THEN NoValue
                  ELSE IF io # "ok" THEN Raised(io)
                  ELSE SpiParse(resp)
       IN /\ spi_resp' = IF reached /\ io = "ok" THEN Some(resp) ELSE None
          /\ Yield("spi", res, "spi_error")
  /\ UNCHANGED <<argv, sysfs_path, debugfs_path, address, listing, report,
                 debugfs_resp, eth_iface, eth_rc, eth_stdout>>

\* read_register, method 3 with a known interface: read_via_ethtool
ReadViaEthtool ==
  /\ pc = "read_ethtool"
  /\ sysfs_path # None
  /\ eth_iface' = Some(sysfs_path[1][Len(sysfs_path[1]) - 1])
  /\ \/ /\ eth_rc' = None
        /\ eth_stdout' = <<>>
        /\ Yield("ethtool", Raised("OSError"), "ethtool_error")
     \/ \E rc \in {0, 1}, stdout \in EthDumps :
          /\ rc # 0 => Len(SplitOn(stdout, "\n")) = 1
          /\ eth_rc' = Some(rc)
          /\ eth_stdout' = stdout
          /\ Yield("ethtool", EthtoolParse(rc, stdout, address[1]), "ethtool_error")
  /\ UNCHANGED <<argv, sysfs_path, debugfs_path, address, listing, report,
                 debugfs_resp, spi_resp>>

\* read_register, method 3 without an interface: nothing is run
SkipEthtool ==
  /\ pc = "read_ethtool"
  /\ sysfs_path = None
  /\ value' = None
  /\ out' = Append(out, "all_failed")
  /\ pc' = "returned"
  /\ UNCHANGED <<argv, exit_code, sysfs_path, debugfs_path, address, calls, results,
                 listing, report>>
  /\ UNCHANGED envVars

\* ------------------------------------------------------------------------
\* show_register_info and the end of main
\* ------------------------------------------------------------------------
\* faulty variant: mask 0xFF in place of 0xFFFF
ChipIdByte(v) == Mask(Shr(v, 16), 8)
\* chip_id = (value >> 16) & 0xFFFF
ChipId(v) == Mask(Shr(v, 16), 16)
\* rev_id = value & 0xFFFF
RevId(v) == Mask(v, 16)

\* faulty variant: RX_HEADER_ERROR taken from bit 6
Status0FieldsShifted(v) ==
  << [label |-> "TX_FRAME_CHECK_SEQUENCE_ERROR", val |-> Mask(Shr(v, 0), 1)],
     [label |-> "TX_FRAME_ERROR", val |-> Mask(Shr(v, 1), 1)],
     [label |-> "TX_BUFFER_OVERFLOW_ERROR", val |-> Mask(Shr(v, 2), 1)],
     [label |-> "TX_FIFO_UNDERFLOW", val |-> Mask(Shr(v, 3), 1)],
     [label |-> "RX_FIFO_OVERFLOW", val |-> Mask(Shr(v, 4), 1)],
     [label |-> "RX_HEADER_ERROR", val |-> Mask(Shr(v, 6), 1)] >>
\* the STATUS0 lines of the report
Status0Fields(v) ==
  << [label |-> "TX_FRAME_CHECK_SEQUENCE_ERROR", val |-> Mask(Shr(v, 0), 1)],
     [label |-> "TX_FRAME_ERROR", val |-> Mask(Shr(v, 1), 1)],
     [label |-> "TX_BUFFER_OVERFLOW_ERROR", val |-> Mask(Shr(v, 2), 1)],
     [label |-> "TX_FIFO_UNDERFLOW", val |-> Mask(Shr(v, 3), 1)],
     [label |-> "RX_FIFO_OVERFLOW", val |-> Mask(Shr(v, 4), 1)],
     [label |-> "RX_HEADER_ERROR", val |-> Mask(Shr(v, 5), 1)] >>

\* the CONFIG0 lines of the report
Config0Fields(v) ==
  << [label |-> "PROTECTED", val |-> Mask(Shr(v, 2), 1)],
     [label |-> "TX_CUT_THROUGH", val |-> Mask(Shr(v, 4), 1)],
     [label |-> "RX_CUT_THROUGH", val |-> Mask(Shr(v, 5), 1)] >>

\* everything show_register_info prints for (addr, v)
RegisterReport(addr, v) ==
  [ addr |-> FmtAddr(addr),
    value |-> v,
    binary |-> Format032b(v),
    name |-> IF \E a \in DOMAIN reg_names : addr = IntOf(a)
             THEN Some(reg_names[CHOOSE a \in DOMAIN reg_names : addr = IntOf(a)]) ELSE None,
    fields |-> CASE addr = IntOf(65536) -> << [label |-> "Chip ID", val |-> ChipId(v)],
                                       [label |-> "Revision", val |-> RevId(v)] >>
                 [] addr = IntOf(65537) -> Status0Fields(v)
                 [] addr = IntOf(65539) -> Config0Fields(v)
                 [] OTHER -> <<>> ]

\* main: value is not None
ShowRegisterInfo ==
  /\ pc = "returned"
  /\ value # None
  /\ report' = Some(RegisterReport(address[1], value[1]))
  /\ out' = Append(out, "report")
  /\ pc' = "done"
  /\ exit_code' = Some(0)
  /\ UNCHANGED <<argv, sysfs_path, debugfs_path, address, listing>>
  /\ UNCHANGED envVars /\ UNCHANGED readVars

\* main: value is None
PrintGuidance ==
  /\ pc = "returned"
  /\ value = None
  /\ out' = Append(out, "guidance")
  /\ pc' = "done"
  /\ exit_code' = Some(0)
  /\ UNCHANGED <<argv, sysfs_path, debugfs_path, address, listing, report>>
  /\ UNCHANGED envVars /\ UNCHANGED readVars

Next ==
  \/ MainUsage
  \/ FindInterfaces
  \/ MainList
  \/ MainReadUsage
  \/ MainReadAddress
  \/ MainOther
  \/ ReadViaDebugfs
  \/ ReadViaSpiDebug
  \/ ReadViaEthtool
  \/ SkipEthtool
  \/ ShowRegisterInfo
  \/ PrintGuidance

Spec == Init /\ [][Next]_vars

\* ------------------------------------------------------------------------
\* Properties
\* ------------------------------------------------------------------------
TypeOK ==
  /\ pc \in {"main", "dispatch", "read_debugfs", "read_spi", "read_ethtool", "returned", "done"}
  /\ Len(results) = Len(calls)
  /\ (exit_code # None) = (pc = "done")

Printed(kind) == \E i \in 1..Len(out) : out[i] = kind

Methods == <<"debugfs", "spi", "ethtool">>

\* C1: read_register tries debugfs, then SPI, then ethtool; a method is tried
\* only after every earlier one yielded nothing, no method is tried after one
\* that yielded a value, and the value returned is that of the first method
\* that yielded one.
C1_FallbackOrder ==
  /\ Len(calls) <= Len(Methods)
  /\ \A i \in 1..Len(calls) : calls[i] = Methods[i]
  /\ \A i \in 1..Len(calls) : \A j \in 1..(i-1) : results[j] = None
  /\ \A i \in 1..Len(calls) : results[i] # None => i = Len(calls)
  /\ (pc \in {"returned", "done"} /\ calls # <<>>) =>
        /\ (\A i \in 1..Len(calls) : results[i] = None) => value = None
        /\ \A i \in 1..Len(calls) : results[i] # None => value = results[i]
        /\ (value # None) => \E i \in 1..Len(calls) : results[i] = value

\* C1 witness: debugfs echoed the request back, its value was returned and
\* neither SPI nor ethtool was invoked.
C1_Witness ==
  /\ pc = "done"
  /\ calls = <<"debugfs">>
  /\ debugfs_resp = Some(FmtAddr(address[1]))
  /\ value = address
  /\ value # None

\* C2: whatever the command line and whatever the filesystem and ethtool do,
\* the program ends with exit code 0.
C2_AlwaysExitZero == pc = "done" => exit_code = Some(0)

\* C3: with no argument, or with a first argument other than list and read,
\* the usage text is printed, the exit code is 0 and no register is read.
C3_UsageOnMisuse ==
  (pc = "done" /\ (Len(argv) < 2 \/ argv[2] \notin {sList, sRead})) =>
     /\ Printed("usage")
     /\ exit_code = Some(0)
     /\ calls = <<>>

AllFailed == calls # <<>> /\ \A i \in 1..Len(calls) : results[i] = None

\* C4: when no read method yields a value, read_register returns the absent
\* value without raising, and `read` prints the guidance text, prints no
\* register report and exits with code 0.
C4_TotalFailure ==
  /\ (pc = "returned" /\ AllFailed) => (value = None /\ out[Len(out)] = "all_failed")
  /\ (pc = "done" /\ AllFailed) =>
        /\ value = None
        /\ Printed("all_failed")
        /\ Printed("guidance")
        /\ ~Printed("report")
        /\ ~Printed("traceback")
        /\ report = None
        /\ exit_code = Some(0)

\* C4 witness: no debugfs path, no SPI attribute, ethtool cannot be run; the
\* guidance was printed.
C4_Witness ==
  /\ pc = "done"
  /\ Len(calls) = 3
  /\ AllFailed
  /\ debugfs_path = None
  /\ spi_resp = None
  /\ eth_rc = None
  /\ Printed("ethtool_error")
  /\ Printed("guidance")

\* C5: when debugfs yields nothing and the SPI attribute answers with a text
\* without "=", the SPI method yields nothing, raises nothing and logs no
\* error, and read_register goes on to run ethtool for the discovered interface.
C5_SpiNoEquals ==
  (Len(calls) >= 2 /\ spi_resp # None /\ ~Contains(<<"=">>, spi_resp[1])) =>
     /\ results[1] = None
     /\ results[2] = None
     /\ ~Printed("spi_error")
     /\ ~Printed("traceback")
     /\ sysfs_path # None
     /\ \/ pc = "read_ethtool"
        \/ /\ Len(calls) = 3
           /\ calls[3] = "ethtool"
           /\ eth_iface = Some(sysfs_path[1][5])

\* C5 witness: the SPI attribute answered "0x21" and ethtool was run.
C5_Witness ==
  /\ spi_resp = Some(<<"0","x","2","1">>)
  /\ calls = <<"debugfs", "spi", "ethtool">>
  /\ eth_rc # None
  /\ pc = "done"

\* the tokens of every line of the ethtool dump, as the program cuts them
EthTokens == LET lines == SplitOn(eth_stdout, "\n") IN [l \in 1..Len(lines) |-> SplitWs(lines[l])]
\* the positions <<line, token>> of toks whose token contains fmt, whatever
\* its case, among the first Len(line) - skip tokens of each line
MatchesIn(toks, fmt, skip) ==
  { h \in UNION { {<<l, i>> : i \in 1..(Len(toks[l]) - skip)} : l \in 1..Len(toks) } :
      Contains(fmt, Lower(toks[h[1]][h[2]])) }
EthRan == Len(calls) = 3 /\ eth_rc # None

\* C6 as stated: if ethtool exits with 0 and some token of some line matches
\* the formatted address, the result is the integer parsed from the token
\* right after such a token; otherwise there is no value.
C6_NextTokenAlways ==
  EthRan =>
    LET toks == EthTokens
        fmt == FmtAddr(address[1])
    IN IF eth_rc = Some(0) /\ MatchesIn(toks, fmt, 0) # {}
       THEN /\ results[3] # None
            /\ \E h \in MatchesIn(toks, fmt, 1) : results[3] = ParseInt(toks[h[1]][h[2] + 1])
       ELSE results[3] = None

\* C6 amended: if ethtool exits with 0, the result is what the token after the
\* first address-containing token that has a successor parses to (no value if
\* it is no integer literal); there is no value when the exit code is not 0 or
\* no address-containing token has a successor.
C6_FirstFollowedMatch ==
  EthRan =>
    LET toks == EthTokens
        hits == MatchesIn(toks, FmtAddr(address[1]), 1)
        first == CHOOSE h \in hits : \A g \in hits : h[1] < g[1] \/ (h[1] = g[1] /\ h[2] <= g[2])
    IN IF eth_rc = Some(0) /\ hits # {}
       THEN results[3] = ParseInt(toks[first[1]][first[2] + 1])
       ELSE results[3] = None

\* C6 witness: the dump line "0x00010000  0x1234abcd" read at 0x10000 gives
\* 0x1234abcd.
C6_Witness ==
  /\ EthRan
  /\ eth_rc = Some(0)
  /\ address = Some(IntOf(ID_REV))
  /\ eth_stdout = FmtAddr(IntOf(ID_REV)) \o <<" ", " ">> \o FmtAddr(PyInt(FALSE, 4660, 43981))
  /\ value = Some(PyInt(FALSE, 4660, 43981))

\* C7: list prints every address that has a register name, as 8-digit
\* lowercase hex with its name, and reads no register.
C7_ListCoversNames ==
  (pc = "done" /\ Len(argv) >= 2 /\ argv[2] = sList) =>
     /\ calls = <<>>
     /\ \A a \in DOMAIN reg_names :
          \E i \in 1..Len(listing) :
             listing[i].addr = FmtAddr(IntOf(a)) /\ listing[i].name = reg_names[a]

\* C8: every value read_register returns lies in 0 .. 2^32 - 1.
C8_ValueIsU32 == value # None => IsU32(value[1])

\* the value printed for the report line with this label
FieldVal(label) ==
  report[1].fields[CHOOSE i \in 1..Len(report[1].fields) : report[1].fields[i].label = label].val

\* C9: for ID_REV and a 32-bit value v the report's chip ID is the upper and
\* its revision the lower 16 bits of v: chip * 2^16 + revision = v.
C9_IdRevSplit ==
  (report # None /\ address = Some(IntOf(ID_REV)) /\ IsU32(value[1])) =>
     /\ Len(report[1].fields) = 2
     /\ report[1].fields[1].label = "Chip ID"
     /\ report[1].fields[2].label = "Revision"
     /\ FieldVal("Chip ID") \in 0..(Limb - 1)
     /\ FieldVal("Revision") \in 0..(Limb - 1)
     /\ value[1] = PyInt(FALSE, FieldVal("Chip ID"), FieldVal("Revision"))
     /\ ZeroPad(HexStr(FieldVal("Chip ID")), 4) \o ZeroPad(HexStr(FieldVal("Revision")), 4)
          = Format08x(value[1])

\* C9 witness: 0x00A10003 was reported as chip 0x00A1, revision 0x0003.
C9_Witness ==
  /\ report # None
  /\ address = Some(IntOf(ID_REV))
  /\ value = Some(PyInt(FALSE, 161, 3))
  /\ FieldVal("Chip ID") = 161
  /\ FieldVal("Revision") = 3

Status0Labels ==
  << "TX_FRAME_CHECK_SEQUENCE_ERROR", "TX_FRAME_ERROR", "TX_BUFFER_OVERFLOW_ERROR",
     "TX_FIFO_UNDERFLOW", "RX_FIFO_OVERFLOW", "RX_HEADER_ERROR" >>

\* C10: for STATUS0 and a 32-bit value v the report has exactly the six flags,
\* in order, flag k being bit k-1 of v (read off the binary expansion of v);
\* no other bit of v plays a part.
C10_Status0Flags ==
  (report # None /\ address = Some(IntOf(STATUS0)) /\ IsU32(value[1])) =>
     /\ Len(report[1].fields) = 6
     /\ Len(report[1].binary) = 32
     /\ \A k \in 1..6 :
          /\ report[1].fields[k].label = Status0Labels[k]
          /\ report[1].fields[k].val \in {0, 1}
          /\ (report[1].fields[k].val = 1) = (report[1].binary[33 - k] = "1")

\* C10 witness: 0b100001 was reported with the first and the sixth flag set
\* and the other four clear.
C10_Witness ==
  /\ report # None
  /\ address = Some(IntOf(STATUS0))
  /\ value = Some(IntOf(33))
  /\ [k \in 1..6 |-> report[1].fields[k].val] = <<1, 0, 0, 0, 0, 1>>
====
